---- MODULE Spec2Model ----
(***************************************************************************)
(* Wire gauge selector (wire_gauge_selector copy.py) and the thermal       *)
(* helpers (modules/thermal.py) as state machines.                         *)
(*                                                                         *)
(* Python floats are modelled as exact rationals in lowest terms plus the  *)
(* not-a-number value that float("nan") yields: every comparison with a    *)
(* NaN is false and every arithmetic result with a NaN operand is NaN.     *)
(* Strings are sequences of one-character strings, so that strip(),        *)
(* lower() and the lexicographic order used by sorted() are computed.      *)
(***************************************************************************)
EXTENDS Integers, Sequences, FiniteSets, TLC

(***************************************************************************)
(* Bounds of the input sets.                                               *)
(***************************************************************************)
MaxCurrentK == 7
MaxLengthK == 4
MaxDropK == 1
MaxPowerK == 5
MaxRth == 4
MaxAmbientK == 3

(***************************************************************************)
(* float: [nan, n, d] with d > 0 and gcd(|n|, d) = 1, or NaN.              *)
(***************************************************************************)
Abs(x) == IF x < 0 THEN -x ELSE x

RECURSIVE GCD(_, _)
GCD(a, b) == IF b = 0 THEN a ELSE GCD(b, a % b)

NaN == [nan |-> TRUE, n |-> 0, d |-> 1]

FNum(n, d) ==
    LET g == GCD(Abs(n), d)
    IN  [nan |-> FALSE, n |-> n \div g, d |-> d \div g]

F(i) == FNum(i, 1)

\* a decimal literal with three fractional digits, e.g. 1.588 = Milli(1588)
Milli(m) == FNum(m, 1000)

FMul(a, b) ==
    IF a.nan \/ b.nan THEN NaN
    ELSE LET g1 == GCD(Abs(a.n), b.d)
             g2 == GCD(Abs(b.n), a.d)
         IN  [nan |-> FALSE,
              n |-> (a.n \div g1) * (b.n \div g2),
              d |-> (a.d \div g2) * (b.d \div g1)]

\* a / b for b # 0 (the callers guard or divide by a literal)
FDiv(a, b) ==
    IF a.nan \/ b.nan THEN NaN
    ELSE FMul(a, [nan |-> FALSE,
                  n |-> IF b.n < 0 THEN -b.d ELSE b.d,
                  d |-> Abs(b.n)])

FGt(a, b) == ~a.nan /\ ~b.nan /\ a.n * b.d > b.n * a.d
FGe(a, b) == ~a.nan /\ ~b.nan /\ a.n * b.d >= b.n * a.d
FLe(a, b) == ~a.nan /\ ~b.nan /\ a.n * b.d <= b.n * a.d
FNe(a, b) == a.nan \/ b.nan \/ a.n * b.d # b.n * a.d

\* Python's None where a float result is expected
NoneF == [nan |-> FALSE, n |-> 0, d |-> 0]

(***************************************************************************)
(* str: strip(), lower() and the code point order.                         *)
(***************************************************************************)
UpperLetters ==
    <<"A", "B", "C", "D", "E", "F", "G", "H", "I", "J", "K", "L", "M",
      "N", "O", "P", "Q", "R", "S", "T", "U", "V", "W", "X", "Y", "Z">>

LowerLetters ==
    <<"a", "b", "c", "d", "e", "f", "g", "h", "i", "j", "k", "l", "m",
      "n", "o", "p", "q", "r", "s", "t", "u", "v", "w", "x", "y", "z">>

LowerChar(c) ==
    IF \E i \in DOMAIN UpperLetters : UpperLetters[i] = c
    THEN LowerLetters[CHOOSE i \in DOMAIN UpperLetters : UpperLetters[i] = c]
    ELSE c

lower(s) == [i \in DOMAIN s |-> LowerChar(s[i])]

Whitespace == {" "}

RECURSIVE lstrip(_)
lstrip(s) ==
    IF s # <<>> /\ Head(s) \in Whitespace THEN lstrip(Tail(s)) ELSE s

RECURSIVE rstrip(_)
rstrip(s) ==
    IF s # <<>> /\ s[Len(s)] \in Whitespace
    THEN rstrip(SubSeq(s, 1, Len(s) - 1))
    ELSE s

strip(s) == rstrip(lstrip(s))

\* code points of the characters of the gauge labels
Ord(c) ==
    CASE c = "/" -> 47
      [] c = "0" -> 48
      [] c = "1" -> 49
      [] c = "2" -> 50
      [] c = "3" -> 51
      [] c = "4" -> 52

\* s < t for str: the first differing code point decides, a prefix is smaller
RECURSIVE StrLess(_, _)
StrLess(s, t) ==
    IF t = <<>> THEN FALSE
    ELSE IF s = <<>> THEN TRUE
    ELSE IF Head(s) # Head(t) THEN Ord(Head(s)) < Ord(Head(t))
    ELSE StrLess(Tail(s), Tail(t))

(***************************************************************************)
(* Gauge identifiers: an int (14 .. 1) or a str ('1/0' .. '4/0').          *)
(***************************************************************************)
AWG(k) == [isint |-> TRUE, n |-> k, s |-> <<>>]
Label(k) == [isint |-> FALSE, n |-> 0, s |-> <<k, "/", "0">>]
None == [isint |-> FALSE, n |-> -1, s |-> <<>>]

(***************************************************************************)
(* The tables, as dicts in insertion order: a sequence of <<key, value>>.  *)
(***************************************************************************)
ampacity_cu ==
    << <<AWG(14), <<15, 20, 25>> >>,
       <<AWG(12), <<20, 25, 30>> >>,
       <<AWG(10), <<30, 35, 40>> >>,
       <<AWG(8), <<40, 50, 55>> >>,
       <<AWG(6), <<55, 65, 75>> >>,
       <<AWG(4), <<70, 85, 95>> >>,
       <<AWG(3), <<85, 100, 110>> >>,
       <<AWG(2), <<95, 115, 130>> >>,
       <<AWG(1), <<110, 130, 145>> >>,
       <<Label("1"), <<125, 150, 170>> >>,
       <<Label("2"), <<145, 175, 195>> >>,
       <<Label("3"), <<165, 200, 225>> >>,
       <<Label("4"), <<195, 230, 260>> >> >>

ampacity_al ==
    << <<AWG(12), <<15, 20, 25>> >>,
       <<AWG(10), <<25, 30, 35>> >>,
       <<AWG(8), <<35, 40, 45>> >>,
       <<AWG(6), <<40, 50, 55>> >>,
       <<AWG(4), <<55, 65, 75>> >>,
       <<AWG(3), <<65, 75, 85>> >>,
       <<AWG(2), <<75, 90, 100>> >>,
       <<AWG(1), <<85, 100, 115>> >>,
       <<Label("1"), <<100, 120, 135>> >>,
       <<Label("2"), <<115, 135, 150>> >>,
       <<Label("3"), <<130, 155, 175>> >>,
       <<Label("4"), <<150, 180, 205>> >> >>

resistance_cu ==
    << <<AWG(14), Milli(2525)>>,
       <<AWG(12), Milli(1588)>>,
       <<AWG(10), Milli(999)>>,
       <<AWG(8), Milli(628)>>,
       <<AWG(6), Milli(395)>>,
       <<AWG(4), Milli(248)>>,
       <<AWG(3), Milli(197)>>,
       <<AWG(2), Milli(156)>>,
       <<AWG(1), Milli(124)>>,
       <<Label("1"), Milli(99)>>,
       <<Label("2"), Milli(78)>>,
       <<Label("3"), Milli(62)>>,
       <<Label("4"), Milli(49)>> >>

resistance_al ==
    << <<AWG(12), Milli(2659)>>,
       <<AWG(10), Milli(1671)>>,
       <<AWG(8), Milli(1052)>>,
       <<AWG(6), Milli(661)>>,
       <<AWG(4), Milli(416)>>,
       <<AWG(3), Milli(330)>>,
       <<AWG(2), Milli(262)>>,
       <<AWG(1), Milli(208)>>,
       <<Label("1"), Milli(165)>>,
       <<Label("2"), Milli(131)>>,
       <<Label("3"), Milli(104)>>,
       <<Label("4"), Milli(82)>> >>

\* dict operations: iteration over the keys, "key in table", table[key]
Keys(table) == [i \in DOMAIN table |-> table[i][1]]
HasKey(table, key) == \E i \in DOMAIN table : table[i][1] = key
Get(table, key) == table[CHOOSE i \in DOMAIN table : table[i][1] = key][2]

copper == <<"c", "o", "p", "p", "e", "r">>
aluminum == <<"a", "l", "u", "m", "i", "n", "u", "m">>

get_ampacity_table(material) ==
    IF lower(material) = copper THEN ampacity_cu ELSE ampacity_al

\* get_resistance_table with a fault: the largest gauge has no entry; the
\* material is compared without lower()
get_resistance_table_short(material) ==
    LET t == IF lower(material) = copper THEN resistance_cu ELSE resistance_al
    IN  SubSeq(t, 1, Len(t) - 1)

get_resistance_table_exact(material) ==
    IF material = copper THEN resistance_cu ELSE resistance_al

get_resistance_table(material) ==
    IF lower(material) = copper THEN resistance_cu ELSE resistance_al

IsInt(g) == g.isint
IsStr(g) == ~g.isint

\* get_gauge_options with a fault: the ints sorted without reverse=True;
\* the labelled sizes put first
get_gauge_options_asc(material) ==
    LET amp_table == get_ampacity_table(material)
        ints == SelectSeq(Keys(amp_table), IsInt)
        kcmils == SelectSeq(Keys(amp_table), IsStr)
    IN  SortSeq(ints, LAMBDA a, b : a.n < b.n)
            \o SortSeq(kcmils, LAMBDA a, b : StrLess(a.s, b.s))

get_gauge_options_labels_first(material) ==
    LET amp_table == get_ampacity_table(material)
        ints == SelectSeq(Keys(amp_table), IsInt)
        kcmils == SelectSeq(Keys(amp_table), IsStr)
    IN  SortSeq(kcmils, LAMBDA a, b : StrLess(a.s, b.s))
            \o SortSeq(ints, LAMBDA a, b : a.n > b.n)

get_gauge_options(material) ==
    LET amp_table == get_ampacity_table(material)
        ints == SelectSeq(Keys(amp_table), IsInt)
        kcmils == SelectSeq(Keys(amp_table), IsStr)
        sorted_ints == SortSeq(ints, LAMBDA a, b : a.n > b.n)
        sorted_kcmils == SortSeq(kcmils, LAMBDA a, b : StrLess(a.s, b.s))
    IN  sorted_ints \o sorted_kcmils

\* FindFrom with a fault: ">" in place of ">="
RECURSIVE FindFrom_strict(_, _, _, _, _)
FindFrom_strict(options, amp_table, required_ampacity, temp_idx, i) ==
    IF i > Len(options) THEN <<None, NoneF>>
    ELSE LET awg0 == options[i]
             amps == Get(amp_table, awg0)[temp_idx + 1]
         IN  IF FGt(F(amps), required_ampacity)
             THEN <<awg0, F(amps)>>
             ELSE FindFrom_strict(options, amp_table, required_ampacity,
                                  temp_idx, i + 1)

\* the for loop of find_min_gauge from position i on
RECURSIVE FindFrom(_, _, _, _, _)
FindFrom(options, amp_table, required_ampacity, temp_idx, i) ==
    IF i > Len(options) THEN <<None, NoneF>>
    ELSE LET awg0 == options[i]
             amps == Get(amp_table, awg0)[temp_idx + 1]
         IN  IF FGe(F(amps), required_ampacity)
             THEN <<awg0, F(amps)>>
             ELSE FindFrom(options, amp_table, required_ampacity, temp_idx, i + 1)

find_min_gauge(required_ampacity, temp_idx, material) ==
    FindFrom(get_gauge_options(material), get_ampacity_table(material),
             required_ampacity, temp_idx, 1)

\* voltage_drop with a fault: the one-way length, without the factor 2
voltage_drop_oneway(current, length_ft, awg, voltage, material) ==
    LET res_table == get_resistance_table(material)
    IN  IF ~HasKey(res_table, awg) THEN <<NoneF, NoneF>>
        ELSE LET r == Get(res_table, awg)
                 vd_volts == FDiv(FMul(FMul(current, length_ft), r), F(1000))
                 vd_percent == IF FNe(voltage, F(0))
                               THEN FMul(FDiv(vd_volts, voltage), F(100))
                               ELSE F(0)
             IN  <<vd_volts, vd_percent>>

voltage_drop(current, length_ft, awg, voltage, material) ==
    LET res_table == get_resistance_table(material)
    IN  IF ~HasKey(res_table, awg) THEN <<NoneF, NoneF>>
        ELSE LET r == Get(res_table, awg)
                 vd_volts == FDiv(FMul(FMul(FMul(F(2), current), length_ft), r),
                                  F(1000))
                 vd_percent == IF FNe(voltage, F(0))
                               THEN FMul(FDiv(vd_volts, voltage), F(100))
                               ELSE F(0)
             IN  <<vd_volts, vd_percent>>

\* options.index(current_awg); 0 stands for the ValueError
Index(options, g) ==
    IF \E i \in DOMAIN options : options[i] = g
    THEN CHOOSE i \in DOMAIN options :
            options[i] = g /\ \A j \in 1..(i - 1) : options[j] # g
    ELSE 0

(***************************************************************************)
(* modules/thermal.py                                                      *)
(***************************************************************************)
junction_temp_simple(Ta, P_total, Rth_ja) == Ta + P_total * Rth_ja

\* safety_margin with a fault: the margin clamped at 0
safety_margin_clamped(Tj, Tj_max) == IF Tj_max - Tj < 0 THEN 0 ELSE Tj_max - Tj

safety_margin(Tj, Tj_max) == Tj_max - Tj

(***************************************************************************)
(* State.  main(): its locals, its position pc and the outcome lines it    *)
(* has printed (out); iters counts the executions of the while body.       *)
(* tq: one call sequence of the table lookups; th: one call sequence of    *)
(* the thermal helpers.                                                    *)
(***************************************************************************)
VARIABLES pc, material_raw, material, current, voltage, length, temp_idx,
          is_continuous, vd_max, required_amp, awg, allowed_amps,
          vd_volts, vd_percent, current_awg, out, iters, tq, th

inputs == <<current, voltage, length, temp_idx, is_continuous, vd_max>>
locals == <<material_raw, material, required_amp, awg, allowed_amps,
            vd_volts, vd_percent, current_awg, out, iters>>
mainVars == <<pc, inputs, locals>>
vars == <<mainVars, tq, th>>

\* what the user types at the material prompt
RawMaterials ==
    { <<>>,
      <<"c", "u">>,
      <<" ", "C", "o", "p", "p", "e", "r", " ">>,
      <<"A", "L">>,
      <<"g", "o", "l", "d">> }

\* what safe_float returns: float(raw), which also parses "nan"
Currents == {F(20 * k) : k \in 0..MaxCurrentK} \cup {F(15), F(250), F(1000), NaN}
Voltages == {F(0), F(12), F(120), NaN}
Lengths == {F(50 * k) : k \in 0..MaxLengthK}
DropLimits == {F(3 * k) : k \in 0..MaxDropK} \cup {NaN}

MainIdle ==
    /\ pc = "idle"
    /\ material_raw = <<>>
    /\ material = <<>>
    /\ current = F(0)
    /\ voltage = F(0)
    /\ length = F(0)
    /\ temp_idx = 0
    /\ is_continuous = FALSE
    /\ vd_max = F(0)
    /\ required_amp = NoneF
    /\ awg = None
    /\ allowed_amps = NoneF
    /\ vd_volts = NoneF
    /\ vd_percent = NoneF
    /\ current_awg = None
    /\ out = <<>>
    /\ iters = 0

TqIdle == [pc |-> "idle", material |-> <<>>, i |-> 1, j |-> 1, t |-> 0,
           amp_table |-> <<>>, res_table |-> <<>>, options |-> <<>>]

ThIdle == [pc |-> "idle", Ta |-> 0, P_total |-> 0, Rth_ja |-> 0, Tj_max |-> 0,
           Tj |-> 0, margin |-> 0]

(***************************************************************************)
(* main()                                                                  *)
(***************************************************************************)
Init ==
    /\ pc = "input"
    /\ material_raw \in RawMaterials
    /\ current \in Currents
    /\ voltage \in Voltages
    /\ length \in Lengths
    /\ temp_idx \in {0, 1, 2}
    /\ is_continuous \in BOOLEAN
    /\ vd_max \in DropLimits
    /\ material = <<>>
    /\ required_amp = NoneF
    /\ awg = None
    /\ allowed_amps = NoneF
    /\ vd_volts = NoneF
    /\ vd_percent = NoneF
    /\ current_awg = None
    /\ out = <<>>
    /\ iters = 0
    /\ tq = TqIdle
    /\ th = ThIdle

\* material_raw = input(...).strip().lower() or 'copper'
NormalizeRaw(raw) ==
    LET r == lower(strip(raw)) IN IF r = <<>> THEN copper ELSE r

\* 'copper' if raw in [c, cu, copper] else 'aluminum' if raw in [a, al, aluminum] else 'copper'
MaterialOf(raw) ==
    IF raw \in {<<"c">>, <<"c", "u">>, copper} THEN copper
    ELSE IF raw \in {<<"a">>, <<"a", "l">>, aluminum} THEN aluminum
    ELSE copper

RequiredAmp(cur, cont) == IF cont THEN FMul(cur, FNum(125, 100)) ELSE cur

\* lines 150-164: the prompts, the material and the required ampacity
ReadInputs ==
    /\ pc = "input"
    /\ material_raw' = NormalizeRaw(material_raw)
    /\ material' = MaterialOf(NormalizeRaw(material_raw))
    /\ required_amp' = RequiredAmp(current, is_continuous)
    /\ pc' = "find"
    /\ UNCHANGED <<inputs, awg, allowed_amps, vd_volts, vd_percent,
                   current_awg, out, iters, tq, th>>

\* lines 166-172
FindMinGauge ==
    /\ pc = "find"
    /\ LET r == find_min_gauge(required_amp, temp_idx, material)
       IN  /\ awg' = r[1]
           /\ allowed_amps' = r[2]
           /\ IF r[1] = None
              THEN /\ out' = Append(out, "NoSuitableGauge")
                   /\ pc' = "done"
              ELSE /\ out' = out
                   /\ pc' = "drop"
    /\ UNCHANGED <<inputs, material_raw, material, required_amp, vd_volts,
                   vd_percent, current_awg, iters, tq, th>>

\* lines 174-178 and 204-205
FirstVoltageDrop ==
    /\ pc = "drop"
    /\ LET r == voltage_drop(current, length, awg, voltage, material)
       IN  /\ vd_volts' = r[1]
           /\ vd_percent' = r[2]
           /\ IF r[1] # NoneF
              THEN /\ current_awg' = awg
                   /\ out' = out
                   /\ pc' = "while"
              ELSE /\ current_awg' = current_awg
                   /\ out' = Append(out, "ResistanceDataUnavailable")
                   /\ pc' = "notes"
    /\ UNCHANGED <<inputs, material_raw, material, required_amp, awg,
                   allowed_amps, iters, tq, th>>

\* NextGauge with a fault: a gauge is skipped; the position does not move
NextGauge_skip(options, idx) ==
    options[IF idx + 2 <= Len(options) THEN idx + 2 ELSE idx + 1]

NextGauge_stay(options, idx) == options[idx]

\* options[idx + 1]
NextGauge(options, idx) == options[idx + 1]

\* lines 179-187 and 192-194: the limit is exceeded and a larger gauge exists.
\* A None result of voltage_drop makes the next "vd_percent > vd_max" raise
\* TypeError, which ends main() without an outcome.
LoopAdvance ==
    /\ pc = "while"
    /\ FGt(vd_percent, vd_max)
    /\ LET options == get_gauge_options(material)
           idx == Index(options, current_awg)
       IN  /\ idx # 0
           /\ idx # Len(options)
           /\ current_awg' = NextGauge(options, idx)
           /\ LET r == voltage_drop(current, length, current_awg', voltage, material)
              IN  /\ vd_volts' = r[1]
                  /\ vd_percent' = r[2]
                  /\ pc' = IF r[1] # NoneF THEN "while" ELSE "abort"
    /\ iters' = iters + 1
    /\ UNCHANGED <<inputs, material_raw, material, required_amp, awg,
                   allowed_amps, out, tq, th>>

\* lines 179-186 and 188-190: the limit is exceeded at the largest gauge
\* (or the gauge is not in the list): break
LoopBreak ==
    /\ pc = "while"
    /\ FGt(vd_percent, vd_max)
    /\ LET options == get_gauge_options(material)
           idx == Index(options, current_awg)
       IN  idx = 0 \/ idx = Len(options)
    /\ iters' = iters + 1
    /\ pc' = "report"
    /\ UNCHANGED <<inputs, material_raw, material, required_amp, awg,
                   allowed_amps, vd_volts, vd_percent, current_awg, out, tq, th>>

\* line 179: the condition of the while is false
LoopExit ==
    /\ pc = "while"
    /\ ~FGt(vd_percent, vd_max)
    /\ pc' = "report"
    /\ UNCHANGED <<inputs, locals, tq, th>>

\* lines 196-203
Report ==
    /\ pc = "report"
    /\ out' = Append(out, IF FLe(vd_percent, vd_max)
                          THEN "Satisfied"
                          ELSE "VoltageDropLimitExceeded")
    /\ pc' = "notes"
    /\ UNCHANGED <<inputs, material_raw, material, required_amp, awg,
                   allowed_amps, vd_volts, vd_percent, current_awg, iters,
                   tq, th>>

\* lines 207-212
Notes ==
    /\ pc = "notes"
    /\ pc' = "done"
    /\ UNCHANGED <<inputs, locals, tq, th>>

Next ==
    \/ ReadInputs
    \/ FindMinGauge
    \/ FirstVoltageDrop
    \/ LoopAdvance
    \/ LoopBreak
    \/ LoopExit
    \/ Report
    \/ Notes

Spec == Init /\ [][Next]_vars

(***************************************************************************)
(* The table lookups called on their own, for any material string.         *)
(***************************************************************************)
TableMaterials ==
    { copper,
      <<"C", "o", "p", "p", "e", "r">>,
      <<"C", "O", "P", "P", "E", "R">>,
      <<" ", "c", "o", "p", "p", "e", "r">>,
      aluminum,
      <<"A", "l", "u", "m", "i", "n", "u", "m">>,
      <<"c", "u">>,
      <<"g", "o", "l", "d">>,
      <<>> }

TableInit ==
    /\ MainIdle
    /\ th = ThIdle
    /\ \E m \in TableMaterials, i0, j0 \in 1..Len(ampacity_cu), t0 \in {0, 1, 2} :
          tq = [TqIdle EXCEPT !.pc = "call", !.material = m,
                              !.i = i0, !.j = j0, !.t = t0]

CallGetAmpacityTable ==
    /\ tq.pc = "call"
    /\ tq' = [tq EXCEPT !.amp_table = get_ampacity_table(tq.material),
                        !.pc = "amp"]
    /\ UNCHANGED <<mainVars, th>>

CallGetResistanceTable ==
    /\ tq.pc = "amp"
    /\ tq' = [tq EXCEPT !.res_table = get_resistance_table(tq.material),
                        !.pc = "res"]
    /\ UNCHANGED <<mainVars, th>>

CallGetGaugeOptions ==
    /\ tq.pc = "res"
    /\ tq' = [tq EXCEPT !.options = get_gauge_options(tq.material),
                        !.pc = "done"]
    /\ UNCHANGED <<mainVars, th>>

TableNext ==
    \/ CallGetAmpacityTable
    \/ CallGetResistanceTable
    \/ CallGetGaugeOptions

TableSpec == TableInit /\ [][TableNext]_vars

(***************************************************************************)
(* The thermal helpers called on their own.                                *)
(***************************************************************************)
ThermalInit ==
    /\ MainIdle
    /\ tq = TqIdle
    /\ \E a \in {25 * k : k \in (-1)..MaxAmbientK}, p \in {5 * k : k \in 0..MaxPowerK},
          r \in 0..MaxRth, m \in {125, 150} :
          th = [ThIdle EXCEPT !.pc = "call", !.Ta = a, !.P_total = p,
                              !.Rth_ja = r, !.Tj_max = m]

CallJunctionTempSimple ==
    /\ th.pc = "call"
    /\ th' = [th EXCEPT !.Tj = junction_temp_simple(th.Ta, th.P_total, th.Rth_ja),
                        !.pc = "tj"]
    /\ UNCHANGED <<mainVars, tq>>

CallSafetyMargin ==
    /\ th.pc = "tj"
    /\ th' = [th EXCEPT !.margin = safety_margin(th.Tj, th.Tj_max),
                        !.pc = "done"]
    /\ UNCHANGED <<mainVars, tq>>

ThermalNext ==
    \/ CallJunctionTempSimple
    \/ CallSafetyMargin

ThermalSpec == ThermalInit /\ [][ThermalNext]_vars

(***************************************************************************)
(* Properties of main().                                                   *)
(***************************************************************************)
Searched == pc \in {"drop", "while", "report", "notes", "done", "abort"}

\* C1: find_min_gauge returns the first gauge in escalation order whose
\* ampacity at temp_idx is >= the required ampacity, with that ampacity, so
\* that every earlier gauge is below the requirement; NoSuitableGauge is
\* reported exactly when no tabulated gauge reaches the requirement.  Copper
\* at 75C with 20 A required gives gauge 14 with 20 A, and 1000 A required
\* gives no gauge.
C1_FindMinGauge ==
    Searched =>
        LET options == get_gauge_options(material)
            amp(g) == Get(get_ampacity_table(material), g)[temp_idx + 1]
            reaches(g) == ~required_amp.nan
                          /\ amp(g) * required_amp.d >= required_amp.n
            none == \A i \in DOMAIN options : ~reaches(options[i])
        IN  /\ awg = None <=> none
            /\ awg = None <=> out = <<"NoSuitableGauge">>
            /\ awg # None =>
                  \E i \in DOMAIN options :
                      /\ options[i] = awg
                      /\ reaches(awg)
                      /\ allowed_amps = F(amp(awg))
                      /\ \A j \in 1..(i - 1) : ~reaches(options[j])
            /\ (material = copper /\ temp_idx = 1 /\ required_amp = F(20))
                  => (awg = AWG(14) /\ allowed_amps = F(20))
            /\ required_amp = F(1000) => awg = None

C1_Witness ==
    /\ pc = "done"
    /\ material = copper
    /\ temp_idx = 1
    /\ required_amp = F(20)
    /\ awg = AWG(14)

Outcomes ==
    {"Satisfied", "NoSuitableGauge", "VoltageDropLimitExceeded",
     "ResistanceDataUnavailable"}

\* C2: a run of the selection ends with exactly one of the four outcomes:
\* it is never aborted part-way through the escalation, it never ends with
\* no outcome and it never reports two.
C2_ExactlyOneOutcome ==
    /\ pc # "abort"
    /\ Len(out) <= 1
    /\ pc = "done" => (Len(out) = 1 /\ out[1] \in Outcomes)

C2_Witness ==
    /\ pc = "done"
    /\ iters >= 2
    /\ out = <<"Satisfied">>
    /\ current_awg = Label("4")

\* C3: a final recommendation g has ampacity >= the required ampacity (the
\* load current, times 1.25 when continuous) and a drop percent <= the
\* limit; g is at or after the minimum-ampacity gauge, and every gauge from
\* the minimum-ampacity gauge up to g (excluded) has a drop percent above
\* the limit.
C3_SatisfiedMeetsBoth ==
    (out = <<"Satisfied">>) =>
        LET options == get_gauge_options(material)
            amp(g) == Get(get_ampacity_table(material), g)[temp_idx + 1]
            pct(g) == voltage_drop(current, length, g, voltage, material)[2]
            g == current_awg
            first == Index(options, awg)
            last == Index(options, g)
        IN  /\ ~current.nan
            /\ IF is_continuous
               THEN 4 * amp(g) * current.d >= 5 * current.n
               ELSE amp(g) * current.d >= current.n
            /\ FLe(pct(g), vd_max)
            /\ first >= 1
            /\ first <= last
            /\ \A k \in first..(last - 1) : FGt(pct(options[k]), vd_max)

C3_Witness ==
    /\ out = <<"Satisfied">>
    /\ is_continuous
    /\ iters >= 1
    /\ pc = "done"

\* C4: VoltageDropLimitExceeded is reported only when the escalation has
\* reached the largest gauge and the drop percent there is still above the
\* limit; then no gauge from the minimum-ampacity gauge through the largest
\* satisfies the limit.
C4_ExceededOnlyAtLargest ==
    (out = <<"VoltageDropLimitExceeded">>) =>
        LET options == get_gauge_options(material)
            pct(g) == voltage_drop(current, length, g, voltage, material)[2]
            first == Index(options, awg)
        IN  /\ current_awg = options[Len(options)]
            /\ FGt(vd_percent, vd_max)
            /\ \A k \in first..Len(options) : ~FLe(pct(options[k]), vd_max)

\* C5: the escalation loop is monotonic and terminates: an iteration after
\* which the loop goes on has strictly advanced the position in
\* gauge_options (every other step taken in the loop leaves it), and the
\* body runs at most len(gauge_options) - start_index times (start_index
\* counted from 0), hence at most the table size.
C5_LoopAdvancesAndEnds ==
    /\ [][pc = "while" =>
            LET options == get_gauge_options(material)
            IN  \/ /\ pc' = "while"
                   /\ Index(options, current_awg') > Index(options, current_awg)
                   /\ iters' = iters + 1
                \/ pc' = "report"]_vars
    /\ [](Searched /\ awg # None =>
            LET options == get_gauge_options(material)
            IN  /\ iters <= Len(options) - (Index(options, awg) - 1)
                /\ iters <= Len(options))

C5_Witness ==
    /\ pc = "report"
    /\ awg = AWG(14)
    /\ iters = Len(get_gauge_options(material))

\* C7: for a gauge with a resistance entry voltage_drop returns
\* drop_volts = 2 * current * length_ft * r / 1000 and
\* drop_percent = 100 * drop_volts / voltage, and 0 percent at 0 V, where no
\* escalation happens for a limit >= 0.  120 V, 20 A, 150 ft on 12 AWG
\* copper gives 9.528 V and 7.94 %, and with a 3 % limit the loop moves on
\* to a larger gauge.
C7_VoltageDropFormula ==
    (pc \in {"while", "report", "notes", "done"} /\ vd_volts # NoneF) =>
        LET r == Get(get_resistance_table(material), current_awg)
        IN  /\ (~current.nan /\ ~length.nan) =>
                  vd_volts = FNum(2 * current.n * length.n * r.n,
                                  1000 * current.d * length.d * r.d)
            /\ (~vd_volts.nan /\ ~voltage.nan /\ voltage.n > 0) =>
                  vd_percent = FNum(100 * vd_volts.n * voltage.d,
                                    vd_volts.d * voltage.n)
            /\ voltage = F(0) =>
                  /\ vd_percent = F(0)
                  /\ (~vd_max.nan /\ vd_max.n >= 0) => iters = 0
            /\ ( /\ voltage = F(120)
                 /\ current = F(20)
                 /\ length = F(150)
                 /\ material = copper
                 /\ current_awg = AWG(12) ) =>
                  /\ vd_volts = FNum(9528, 1000)
                  /\ vd_percent = FNum(794, 100)
                  /\ vd_max = F(3) => pc = "while"

C7_Witness ==
    /\ pc = "while"
    /\ voltage = F(120)
    /\ current = F(20)
    /\ length = F(150)
    /\ material = copper
    /\ current_awg = AWG(12)
    /\ vd_percent = FNum(794, 100)
    /\ vd_max = F(3)
    /\ iters = 0

(***************************************************************************)
(* Properties of the tables and of the thermal helpers.                    *)
(***************************************************************************)
\* C6: for gauges g1 before g2 in gauge_options(material), in both tables,
\* ampacity(g1, t) <= ampacity(g2, t) for every t and
\* resistance(g1) > resistance(g2); for every gauge the ampacity does not
\* decrease from 60C to 75C to 90C.
C6_TablesMonotonic ==
    (tq.pc = "done" /\ tq.i <= Len(tq.options) /\ tq.j <= Len(tq.options)) =>
        LET g1 == tq.options[tq.i]
            g2 == tq.options[tq.j]
            a1 == Get(tq.amp_table, g1)
            a2 == Get(tq.amp_table, g2)
            r1 == Get(tq.res_table, g1)
            r2 == Get(tq.res_table, g2)
        IN  /\ a1[1] <= a1[2]
            /\ a1[2] <= a1[3]
            /\ tq.i < tq.j =>
                  /\ a1[tq.t + 1] <= a2[tq.t + 1]
                  /\ r1.n * r2.d > r2.n * r1.d

C6_Witness ==
    /\ tq.pc = "done"
    /\ tq.amp_table = ampacity_al
    /\ tq.i = 8
    /\ tq.j = 9
    /\ tq.options[8] = AWG(1)
    /\ tq.options[9] = Label("1")

CopperSpellings ==
    { <<"c", "o", "p", "p", "e", "r">>,
      <<"C", "o", "p", "p", "e", "r">>,
      <<"C", "O", "P", "P", "E", "R">> }

KeySet(table) == {table[i][1] : i \in DOMAIN table}

\* C8: both lookups return the copper table exactly when the material is
\* 'copper' in any letter case and the aluminum table for anything else;
\* they agree on the material, and the gauge ordering is over the keys of
\* the same tables.
C8_LookupsAgree ==
    tq.pc = "done" =>
        /\ tq.amp_table = ampacity_cu <=> tq.material \in CopperSpellings
        /\ tq.amp_table # ampacity_cu => tq.amp_table = ampacity_al
        /\ tq.res_table = resistance_cu <=> tq.material \in CopperSpellings
        /\ tq.res_table # resistance_cu => tq.res_table = resistance_al
        /\ {tq.options[k] : k \in DOMAIN tq.options} = KeySet(tq.amp_table)
        /\ KeySet(tq.res_table) = KeySet(tq.amp_table)

C8_Witness ==
    /\ tq.pc = "done"
    /\ tq.material = <<"C", "O", "P", "P", "E", "R">>
    /\ tq.amp_table = ampacity_cu
    /\ tq.res_table = resistance_cu

EscalationOrder ==
    <<AWG(14), AWG(12), AWG(10), AWG(8), AWG(6), AWG(4), AWG(3), AWG(2),
      AWG(1), Label("1"), Label("2"), Label("3"), Label("4")>>

\* C9: gauge_options(material) is 14,12,10,8,6,4,3,2,1,'1/0','2/0','3/0',
\* '4/0' for copper and the same sequence without 14 for aluminum, and holds
\* every gauge of the material's ampacity table exactly once.
C9_EscalationOrder ==
    tq.pc = "done" =>
        /\ tq.options = IF tq.amp_table = ampacity_cu
                        THEN EscalationOrder
                        ELSE Tail(EscalationOrder)
        /\ \A k \in DOMAIN tq.amp_table :
              Cardinality({p \in DOMAIN tq.options :
                              tq.options[p] = tq.amp_table[k][1]}) = 1
        /\ Len(tq.options) = Len(tq.amp_table)

C9_Witness ==
    /\ tq.pc = "done"
    /\ tq.material = aluminum
    /\ tq.options = Tail(EscalationOrder)

\* C10: junction_temp_simple(Ta, P, Rth_ja) = Ta + P * Rth_ja and
\* safety_margin(Tj, Tj_max) = Tj_max - Tj, negative when Tj > Tj_max; with
\* no loss Tj is the ambient temperature: Tj_max=150, Ta=25, P=0, Rth_ja=4
\* gives Tj=25 and a margin of 125.
C10_ThermalFormulas ==
    th.pc = "done" =>
        /\ th.Tj - th.Ta = th.P_total * th.Rth_ja
        /\ th.margin + th.Tj = th.Tj_max
        /\ th.Tj > th.Tj_max => th.margin < 0
        /\ th.P_total = 0 => th.Tj = th.Ta
        /\ (th.Tj_max = 150 /\ th.Ta = 25 /\ th.P_total = 0 /\ th.Rth_ja = 4)
              => (th.Tj = 25 /\ th.margin = 125)

C10_Witness ==
    /\ th.pc = "done"
    /\ th.Tj_max = 150
    /\ th.Ta = 25
    /\ th.P_total = 0
    /\ th.Rth_ja = 4
    /\ th.margin = 125

====
